---- MODULE Spec2Model ----
(***************************************************************************)
(* Robust piecewise regression (ropwr): the method selector, the trend     *)
(* constraints and the fit/predict life cycle of RobustPWRegression.       *)
(*                                                                         *)
(* Python values are represented as follows.                               *)
(*   - strings are strings; the trend None is the string "None";           *)
(*   - an optional number (lb, ub, t) is <<>> for None and <<v>> for v;    *)
(*   - arrays are sequences of integers (index i of the code is i + 1);    *)
(*   - h_epsilon and quantile are given in hundredths (1.35 is 135);       *)
(*   - coef_ is <<>> for None, else a sequence of rows, row i of the code  *)
(*     being coef_[i + 1], coefficients in ascending power;                *)
(*   - an attribute that was never assigned (_splits before the first      *)
(*     successful fit) is <<>>.                                            *)
(* Inputs are finite numbers of the right type: the isinstance tests of    *)
(* the validators are kept, and always pass on the inputs drawn here.      *)
(***************************************************************************)
EXTENDS Integers, Sequences, FiniteSets, TLC

VARIABLES
    objective, degree, continuous, monotonic_trend, solver,
    h_epsilon, quantile, verbose,      \* constructor parameters
    coef_, _splits, _is_fitted,        \* fitted state
    call,                              \* the last call: arguments and result
    last_fit                           \* history: the last successful fit

params == <<objective, degree, continuous, monotonic_trend, solver,
            h_epsilon, quantile, verbose>>
fitted == <<coef_, _splits, _is_fitted>>
vars == <<params, fitted, call, last_fit>>

----------------------------------------------------------------------------
(* Bounds of the model *)

MaxRows == 3        \* rows of D in monotonic_trend_constraints
MaxSplits == 2      \* length of a splits argument
MaxX == 1           \* length of the x argument of predict
NumSolutions == 1   \* distinct coefficient tables a builder may return

None == <<>>
Some(v) == <<v>>
IsNone(o) == o = <<>>
Val(o) == o[1]

Objectives == {"l1", "l2", "huber", "quantile"}
Trends == {"ascending", "descending", "convex", "concave"}
Solvers == {"auto", "ecos", "osqp", "direct"}
Methods == {"lsq_direct", "lsq_direct_separated", "qp", "qp_separated",
            "socp", "socp_separated"}

----------------------------------------------------------------------------
(* base.py: validation and method selection *)

IsBool(v) == v \in BOOLEAN
IsNumber(v) == v \in Int

\* "ok", or the error the first failing test raises.
_check_parameters(p_objective, p_degree, p_continuous, p_monotonic_trend, p_solver, p_h_epsilon, p_quantile, p_verbose) ==
    IF p_objective \notin {"l1", "l2", "huber", "quantile"}
    THEN "ValueError: objective"
    ELSE IF ~IsNumber(p_degree) \/ ~(0 <= p_degree /\ p_degree <= 5)
    THEN "ValueError: degree"
    ELSE IF ~IsBool(p_continuous)
    THEN "TypeError: continuous"
    ELSE IF p_monotonic_trend # "None"
            /\ p_monotonic_trend \notin {"ascending", "descending", "convex",
                                         "concave"}
    THEN "ValueError: monotonic_trend"
    ELSE IF p_monotonic_trend # "None"
            /\ p_monotonic_trend \in {"convex", "concave"} /\ p_degree # 1
    THEN "ValueError: trend degree"
    ELSE IF p_monotonic_trend # "None"
            /\ p_monotonic_trend \in {"convex", "concave"} /\ ~p_continuous
    THEN "ValueError: trend continuous"
    ELSE IF p_solver \notin {"auto", "ecos", "osqp", "direct"}
    THEN "ValueError: solver"
    ELSE IF ~IsNumber(p_h_epsilon) \/ p_h_epsilon < 100
    THEN "ValueError: h_epsilon"
    ELSE IF ~IsNumber(p_quantile) \/ ~(0 < p_quantile /\ p_quantile < 100)
    THEN "ValueError: quantile"
    ELSE IF ~IsBool(p_verbose)
    THEN "TypeError: verbose"
    ELSE "ok"

\* A second selector: solver "auto" never looks at bounded.
_choose_method_auto_ignores_bounds(p_objective, p_degree, p_continuous, p_monotonic_trend, p_solver, bounded) ==
    IF p_solver = "auto"
    THEN IF p_objective = "l2"
         THEN IF p_monotonic_trend = "None"
              THEN IF p_continuous THEN "lsq_direct"
                                   ELSE "lsq_direct_separated"
              ELSE IF p_continuous THEN "qp" ELSE "qp_separated"
         ELSE IF p_continuous THEN "socp" ELSE "socp_separated"
    ELSE IF p_solver = "direct"
    THEN IF p_objective # "l2" \/ p_monotonic_trend # "None" \/ bounded
         THEN "ValueError: direct"
         ELSE IF p_continuous THEN "lsq_direct" ELSE "lsq_direct_separated"
    ELSE IF p_solver = "osqp"
    THEN IF p_objective = "l2"
         THEN IF p_continuous THEN "qp" ELSE "qp_separated"
         ELSE "ValueError: osqp"
    ELSE IF p_solver = "ecos"
    THEN IF p_continuous THEN "socp" ELSE "socp_separated"
    ELSE "None"

\* A second selector: the "ecos" branch is missing, the function falls off
\* its end and returns None.
_choose_method_no_ecos(p_objective, p_degree, p_continuous, p_monotonic_trend, p_solver, bounded) ==
    IF p_solver = "auto"
    THEN IF bounded
         THEN IF p_continuous THEN "socp" ELSE "socp_separated"
         ELSE IF p_objective = "l2"
              THEN IF p_monotonic_trend = "None"
                   THEN IF p_continuous THEN "lsq_direct"
                                        ELSE "lsq_direct_separated"
                   ELSE IF p_continuous THEN "qp" ELSE "qp_separated"
              ELSE IF p_continuous THEN "socp" ELSE "socp_separated"
    ELSE IF p_solver = "direct"
    THEN IF p_objective # "l2" \/ p_monotonic_trend # "None" \/ bounded
         THEN "ValueError: direct"
         ELSE IF p_continuous THEN "lsq_direct" ELSE "lsq_direct_separated"
    ELSE IF p_solver = "osqp"
    THEN IF p_objective = "l2"
         THEN IF p_continuous THEN "qp" ELSE "qp_separated"
         ELSE "ValueError: osqp"
    ELSE "None"

\* The method name, the error raised, or "None" when the function falls off
\* its end without a return.
_choose_method(p_objective, p_degree, p_continuous, p_monotonic_trend, p_solver, bounded) ==
    IF p_solver = "auto"
    THEN IF bounded
         THEN IF p_continuous THEN "socp" ELSE "socp_separated"
         ELSE IF p_objective = "l2"
              THEN IF p_monotonic_trend = "None"
                   THEN IF p_continuous THEN "lsq_direct"
                                        ELSE "lsq_direct_separated"
                   ELSE IF p_continuous THEN "qp" ELSE "qp_separated"
              ELSE IF p_continuous THEN "socp" ELSE "socp_separated"
    ELSE IF p_solver = "direct"
    THEN IF p_objective # "l2" \/ p_monotonic_trend # "None" \/ bounded
         THEN "ValueError: direct"
         ELSE IF p_continuous THEN "lsq_direct" ELSE "lsq_direct_separated"
    ELSE IF p_solver = "osqp"
    THEN IF p_objective = "l2"
         THEN IF p_continuous THEN "qp" ELSE "qp_separated"
         ELSE "ValueError: osqp"
    ELSE IF p_solver = "ecos"
    THEN IF p_continuous THEN "socp" ELSE "socp_separated"
    ELSE "None"

\* "ok", or the error raised.
_check_bounds(lb, ub) ==
    IF ~IsNone(lb) /\ ~IsNumber(Val(lb)) THEN "TypeError: lb"
    ELSE IF ~IsNone(ub) /\ ~IsNumber(Val(ub)) THEN "TypeError: ub"
    ELSE IF ~IsNone(lb) /\ ~IsNone(ub) /\ Val(lb) > Val(ub)
    THEN "ValueError: lb > ub"
    ELSE "ok"

\* set(a): the distinct values of an array.
SetOf(a) == {a[i] : i \in 1..Len(a)}

\* a[np.argsort(a)]: the values of a in ascending order.
RECURSIVE SortedArray(_)
SortedArray(a) ==
    IF a = <<>> THEN <<>>
    ELSE LET i == CHOOSE k \in 1..Len(a) : \A j \in 1..Len(a) : a[k] <= a[j]
         IN  <<a[i]>> \o SortedArray(SubSeq(a, 1, i - 1) \o SubSeq(a, i + 1, Len(a)))

\* check_array(a, ensure_2d=False, force_all_finite=True) on a finite numeric
\* array: an array with no sample is refused.
check_array(a) == IF Len(a) < 1 THEN "ValueError: 0 samples" ELSE "ok"

\* As _check_splits, without the uniqueness test.
_check_splits_no_unique(splits) ==
    IF check_array(splits) # "ok"
    THEN [err |-> check_array(splits), user_splits |-> <<>>]
    ELSE [err |-> "ok", user_splits |-> SortedArray(splits)]

\* The error raised ("ok" when none) and the sorted array returned.
_check_splits(splits) ==
    IF check_array(splits) # "ok"
    THEN [err |-> check_array(splits), user_splits |-> <<>>]
    ELSE IF Cardinality(SetOf(splits)) # Len(splits)
    THEN [err |-> "ValueError: splits are not unique", user_splits |-> <<>>]
    ELSE [err |-> "ok", user_splits |-> SortedArray(splits)]

----------------------------------------------------------------------------
(* cvx.py: monotonic_trend_constraints *)

Min(a, b) == IF a < b THEN a ELSE b
Max(a, b) == IF a > b THEN a ELSE b

\* The index a slice bound t stands for in a sequence of n rows.
SliceIndex(t, n) == IF t < 0 THEN Max(n + t, 0) ELSE Min(t, n)

\* Row indices of D[:t, :] and of D[t:, :], D having n rows.
RowsBefore(t, n) == IF IsNone(t) THEN 0..(n - 1) ELSE 0..(SliceIndex(Val(t), n) - 1)
RowsFrom(t, n) == IF IsNone(t) THEN 0..(n - 1) ELSE SliceIndex(Val(t), n)..(n - 1)

\* A constraint "D[rows, :] * c  rel  0".
Constraint(rows, rel) == [rows |-> rows, rel |-> rel]

\* As monotonic_trend_constraints, the second group of "valley" and "peak"
\* starting one row late.
monotonic_trend_constraints_skip_pivot(trend, n, t) ==
    IF trend \in {"ascending", "convex"}
    THEN <<Constraint(0..(n - 1), ">=")>>
    ELSE IF trend \in {"descending", "concave"}
    THEN <<Constraint(0..(n - 1), "<=")>>
    ELSE IF trend = "valley"
    THEN <<Constraint(RowsBefore(t, n), "<="),
           Constraint({r \in RowsFrom(t, n) : IsNone(t) \/ r # SliceIndex(Val(t), n)}, ">=")>>
    ELSE IF trend = "peak"
    THEN <<Constraint(RowsBefore(t, n), ">="),
           Constraint({r \in RowsFrom(t, n) : IsNone(t) \/ r # SliceIndex(Val(t), n)}, "<=")>>
    ELSE <<>>

\* The constraints returned for a matrix D of n rows: which rows of D * c
\* each one relates to 0, and how. <<>> when the function returns None.
monotonic_trend_constraints(trend, n, t) ==
    IF trend \in {"ascending", "convex"}
    THEN <<Constraint(0..(n - 1), ">=")>>
    ELSE IF trend \in {"descending", "concave"}
    THEN <<Constraint(0..(n - 1), "<=")>>
    ELSE IF trend = "valley"
    THEN <<Constraint(RowsBefore(t, n), "<="), Constraint(RowsFrom(t, n), ">=")>>
    ELSE IF trend = "peak"
    THEN <<Constraint(RowsBefore(t, n), ">="), Constraint(RowsFrom(t, n), "<=")>>
    ELSE <<>>


----------------------------------------------------------------------------
(* The formulation builders (direct.py, cvx_qp.py, cvx_socp.py) *)

\* Coefficient k of row i of the table numbered sol: the rows of a table
\* differ from each other, and so do the tables.
CoefValue(sol, i, k) == ((sol + i + k) % 7) - 3

CoefTable(sol, n_bins, deg) ==
    [i \in 1..n_bins |-> [k \in 1..(deg + 1) |-> CoefValue(sol, i - 1, k - 1)]]

\* A builder either raises a solver error (sol = 0) or returns a table of
\* len(splits) + 1 rows and degree + 1 columns.
Builder(method, xs, ys, splits, deg, lb, ub, sol) ==
    IF sol = 0
    THEN [err |-> "SolverError", c |-> None]
    ELSE [err |-> "ok", c |-> CoefTable(sol, Len(splits) + 1, deg)]

----------------------------------------------------------------------------
(* base.py: RobustPWRegression.fit *)

\* The positions of x in ascending order of value (np.argsort).
RECURSIVE ArgSortFrom(_, _)
ArgSortFrom(x, left) ==
    IF left = {} THEN <<>>
    ELSE LET i == CHOOSE k \in left :
                    \A j \in left : x[k] < x[j] \/ (x[k] = x[j] /\ k <= j)
         IN  <<i>> \o ArgSortFrom(x, left \ {i})

argsort(x) == ArgSortFrom(x, 1..Len(x))
Take(a, idx) == [j \in 1..Len(idx) |-> a[idx[j]]]

Raised(e) ==
    [err |-> e, method |-> "None", builder |-> "none", builder_splits |-> <<>>,
     xs |-> <<>>, ys |-> <<>>, c |-> None]

\* fit up to the assignments of its last lines: the error raised ("ok" when
\* none), the method chosen, the builder invoked with its arguments, and the
\* table it returned.
fit_run(x, y, splits, lb, ub, sol) ==
    LET pc == _check_parameters(objective, degree, continuous, monotonic_trend,
                                solver, h_epsilon, quantile, verbose)
        idx == argsort(x)
        xs == Take(x, idx)
        ys == Take(y, idx)
        bounded == ~IsNone(lb) \/ ~IsNone(ub)
        _method == _choose_method(objective, degree, continuous,
                                  monotonic_trend, solver, bounded)
        b == Builder(_method, xs, ys, splits, degree, lb, ub, sol)
    IN  IF pc # "ok" THEN Raised(pc)
        ELSE IF check_array(x) # "ok" THEN Raised(check_array(x))
        ELSE IF check_array(y) # "ok" THEN Raised(check_array(y))
        ELSE IF Len(x) # Len(y) THEN Raised("ValueError: inconsistent length")
        ELSE IF _check_splits(splits).err # "ok"
        THEN Raised(_check_splits(splits).err)
        ELSE IF bounded /\ _check_bounds(lb, ub) # "ok"
        THEN Raised(_check_bounds(lb, ub))
        ELSE IF _method = "None"
        THEN Raised("UnboundLocalError: c")
        ELSE IF _method \notin Methods
        THEN Raised(_method)
        ELSE [err |-> b.err, method |-> _method, builder |-> _method,
              builder_splits |-> splits, xs |-> xs, ys |-> ys, c |-> b.c]

\* As fit_store, _splits being assigned before the builder is called.
fit_store_splits_early(r, splits) ==
    IF r.err = "ok"
    THEN coef_' = r.c /\ _splits' = splits /\ _is_fitted' = TRUE
    ELSE IF r.builder # "none"
    THEN _splits' = splits /\ UNCHANGED <<coef_, _is_fitted>>
    ELSE UNCHANGED fitted

\* The last lines of fit, reached when nothing was raised.
fit_store(r, splits) ==
    IF r.err = "ok"
    THEN coef_' = r.c /\ _splits' = splits /\ _is_fitted' = TRUE
    ELSE UNCHANGED fitted

----------------------------------------------------------------------------
(* base.py: RobustPWRegression.predict *)

IsNonDecreasing(a) == \A i \in 1..(Len(a) - 1) : a[i] <= a[i + 1]
IsNonIncreasing(a) == \A i \in 1..(Len(a) - 1) : a[i] >= a[i + 1]

\* np.digitize(x, bins, right=False): for increasing bins the index i with
\* bins[i-1] <= x < bins[i], for decreasing bins the index i with
\* bins[i-1] > x >= bins[i]; bins in no order are refused.
digitize(x, bins) ==
    IF IsNonDecreasing(bins)
    THEN [err |-> "ok",
          indices |-> [j \in 1..Len(x) |->
                        Cardinality({i \in 1..Len(bins) : bins[i] <= x[j]})]]
    ELSE IF IsNonIncreasing(bins)
    THEN [err |-> "ok",
          indices |-> [j \in 1..Len(x) |->
                        Len(bins) - Cardinality({i \in 1..Len(bins) : bins[i] <= x[j]})]]
    ELSE [err |-> "ValueError: bins must be monotonic", indices |-> <<>>]

\* a[::-1]
Reversed(a) == [k \in 1..Len(a) |-> a[Len(a) + 1 - k]]

\* np.polyval(p, v): Horner's rule, p holding the highest power first.
RECURSIVE Horner(_, _, _)
Horner(p, v, acc) ==
    IF p = <<>> THEN acc ELSE Horner(Tail(p), v, acc * v + Head(p))

polyval(p, v) == Horner(p, v, 0)

\* As clip, the upper bound being left out.
clip_lower_only(v, lb, ub) == IF IsNone(lb) THEN v ELSE Max(v, Val(lb))

\* np.clip(v, lb, ub) for one value: minimum(maximum(v, lb), ub), a bound
\* that is None being left out.
clip(v, lb, ub) ==
    LET low == IF IsNone(lb) THEN v ELSE Max(v, Val(lb))
    IN  IF IsNone(ub) THEN low ELSE Min(low, Val(ub))

\* The value predicted for v, which digitize put in segment i: the loop over
\* range(n_bins) writes the polynomial of row i, and leaves the 0 of
\* np.zeros where i is no segment; then the clipping.
predict_value(coef, n_bins, i, v, lb, ub) ==
    IF ~IsNone(lb) \/ ~IsNone(ub)
    THEN clip(IF i \in 0..(n_bins - 1) THEN polyval(Reversed(coef[i + 1]), v)
                                       ELSE 0, lb, ub)
    ELSE IF i \in 0..(n_bins - 1) THEN polyval(Reversed(coef[i + 1]), v)
    ELSE 0

\* As predict_from, a model that is not fitted being reported by a
\* ValueError.
predict_from_wrong_error(is_fitted, coef, splits, d, x, lb, ub) ==
    IF ~is_fitted
    THEN [err |-> "ValueError: not fitted", indices |-> <<>>, pred |-> <<>>]
    ELSE IF (~IsNone(lb) \/ ~IsNone(ub)) /\ _check_bounds(lb, ub) # "ok"
    THEN [err |-> _check_bounds(lb, ub), indices |-> <<>>, pred |-> <<>>]
    ELSE IF d.err # "ok"
    THEN [err |-> d.err, indices |-> <<>>, pred |-> <<>>]
    ELSE [err |-> "ok", indices |-> d.indices,
          pred |-> [j \in 1..Len(x) |->
                      predict_value(coef, Len(splits) + 1, d.indices[j],
                                    x[j], lb, ub)]]

\* predict on a model whose state is (is_fitted, coef, splits), d being what
\* np.digitize(x, splits) gives: the error raised ("ok" when none), the
\* segment index of each value and the array returned.
predict_from(is_fitted, coef, splits, d, x, lb, ub) ==
    IF ~is_fitted
    THEN [err |-> "NotFittedError", indices |-> <<>>, pred |-> <<>>]
    ELSE IF (~IsNone(lb) \/ ~IsNone(ub)) /\ _check_bounds(lb, ub) # "ok"
    THEN [err |-> _check_bounds(lb, ub), indices |-> <<>>, pred |-> <<>>]
    ELSE IF d.err # "ok"
    THEN [err |-> d.err, indices |-> <<>>, pred |-> <<>>]
    ELSE [err |-> "ok", indices |-> d.indices,
          pred |-> [j \in 1..Len(x) |->
                      predict_value(coef, Len(splits) + 1, d.indices[j],
                                    x[j], lb, ub)]]

predict_run(is_fitted, coef, splits, x, lb, ub) ==
    predict_from(is_fitted, coef, splits, digitize(x, splits), x, lb, ub)

----------------------------------------------------------------------------
(* The calls *)

NoCall == [op |-> "init"]

\* __init__: nothing is fitted.
InitFitted ==
    /\ coef_ = None
    /\ _splits = <<>>
    /\ _is_fitted = FALSE
    /\ call = NoCall
    /\ last_fit = [done |-> FALSE, coef |-> None, splits |-> <<>>, bounded |-> FALSE]

Fit(x, y, splits, lb, ub, sol) ==
    \E r \in {fit_run(x, y, splits, lb, ub, sol)} :
        /\ fit_store(r, splits)
        /\ call' = [op |-> "fit", splits |-> splits, lb |-> lb, ub |-> ub,
                    fit_err |-> r.err, err |-> r.err, method |-> r.method,
                    builder |-> r.builder, builder_splits |-> r.builder_splits,
                    xs |-> r.xs, ys |-> r.ys]
        /\ last_fit' = IF r.err = "ok"
                       THEN [done |-> TRUE, coef |-> r.c, splits |-> splits,
                             bounded |-> ~IsNone(lb) \/ ~IsNone(ub)]
                       ELSE last_fit
        /\ UNCHANGED params

\* As Predict, a call that raises leaving the model marked as not fitted.
PredictResetsOnError(x, lb, ub) ==
    \E d \in {digitize(x, _splits)} :
      \E p \in {predict_from(_is_fitted, coef_, _splits, d, x, lb, ub)} :
        /\ call' = [op |-> "predict", x |-> x, lb |-> lb, ub |-> ub,
                    err |-> p.err, indices |-> p.indices, pred |-> p.pred]
        /\ _is_fitted' = (p.err = "ok")
        /\ UNCHANGED <<params, coef_, _splits, last_fit>>

Predict(x, lb, ub) ==
    \E d \in {digitize(x, _splits)} :
      \E p \in {predict_from(_is_fitted, coef_, _splits, d, x, lb, ub)} :
        /\ call' = [op |-> "predict", x |-> x, lb |-> lb, ub |-> ub,
                    err |-> p.err, indices |-> p.indices, pred |-> p.pred]
        /\ UNCHANGED <<params, fitted, last_fit>>

\* fit(x, y, splits, lb, ub).predict(x, lb, ub): predict runs on the state
\* fit leaves, and only when fit raised nothing.
FitPredict(x, y, splits, lb, ub, sol) ==
    \E r \in {fit_run(x, y, splits, lb, ub, sol)} :
      \E d \in {digitize(x, splits)} :
      \E p \in {IF r.err = "ok"
                THEN predict_from(TRUE, r.c, splits, d, x, lb, ub)
                ELSE [err |-> r.err, indices |-> <<>>, pred |-> <<>>]} :
        /\ fit_store(r, splits)
        /\ call' = [op |-> "fit_predict", splits |-> splits, lb |-> lb,
                    ub |-> ub, fit_err |-> r.err,
                    err |-> p.err,
                    method |-> r.method, builder |-> r.builder,
                    builder_splits |-> r.builder_splits,
                    xs |-> r.xs, ys |-> r.ys, x |-> x,
                    indices |-> p.indices, pred |-> p.pred]
        /\ last_fit' = IF r.err = "ok"
                       THEN [done |-> TRUE, coef |-> r.c, splits |-> splits,
                             bounded |-> ~IsNone(lb) \/ ~IsNone(ub)]
                       ELSE last_fit
        /\ UNCHANGED params

----------------------------------------------------------------------------
(* Arguments *)

SeqsUpTo(S, n) == UNION {[1..k -> S] : k \in 0..n}

SplitVals == 1..3
XVals == 0..4

\* Training samples: of equal length, and of different lengths.
SampleArgs == {<<<<3, 1>>, <<5, 7>>>>, <<<<3, 1>>, <<5>>>>}

\* What the builder does: 0 for a solver error, else the table it returns.
SolveArgs == 0..NumSolutions

----------------------------------------------------------------------------
(* The model with its default parameters, under varied data *)

\* RobustPWRegression() with the default arguments.
InitDefault ==
    /\ objective = "l2"
    /\ degree = 1
    /\ continuous = TRUE
    /\ monotonic_trend = "None"
    /\ solver = "auto"
    /\ h_epsilon = 135
    /\ quantile = 50
    /\ verbose = FALSE
    /\ InitFitted

SplitsArgs == SeqsUpTo(SplitVals, MaxSplits)
XArgs == SeqsUpTo(XVals, MaxX)

\* The builder raises, or returns its first table.
DataFit ==
    \E splits \in SplitsArgs, lb \in {None, Some(0)}, sol \in {0, 1} :
        Fit(<<3, 1>>, <<5, 7>>, splits, lb, None, sol)

DataPredict ==
    \E x \in XArgs, lb \in {None, Some(0)},
       ub \in {None, Some(0 - 1), Some(1)} :
        Predict(x, lb, ub)

NextData == DataFit \/ DataPredict

SpecData == InitDefault /\ [][NextData]_vars

----------------------------------------------------------------------------
(* The model under varied parameters *)

ObjectiveArgs == Objectives \cup {"l3"}
DegreeArgs == {0 - 1, 0, 1, 6}
TrendArgs == Trends \cup {"valley", "peak", "None"}
SolverArgs == Solvers \cup {"scs"}

\* How many of the arguments are outside their allowed values.
BadArgs(o, d, m, s, h, q) ==
    Cardinality({a \in {"objective", "degree", "monotonic_trend", "solver",
                        "h_epsilon", "quantile"} :
        \/ a = "objective" /\ o \notin Objectives
        \/ a = "degree" /\ d \notin 0..5
        \/ a = "monotonic_trend" /\ m \notin Trends \cup {"None"}
        \/ a = "solver" /\ s \notin Solvers
        \/ a = "h_epsilon" /\ h < 100
        \/ a = "quantile" /\ q \notin 1..99})

\* RobustPWRegression(...) with at most one argument outside its allowed
\* values (of several, _check_parameters reports the first).
InitConfig ==
    /\ objective \in ObjectiveArgs
    /\ degree \in DegreeArgs
    /\ continuous \in BOOLEAN
    /\ monotonic_trend \in Trends \cup {"peak", "None"}
    /\ solver \in SolverArgs
    /\ h_epsilon \in {50, 135}
    /\ quantile \in {50, 100}
    /\ verbose = FALSE
    /\ BadArgs(objective, degree, monotonic_trend, solver, h_epsilon, quantile) <= 1
    /\ InitFitted

ConfigSplits == {<<2>>, <<3, 1>>, <<1, 1>>}
ConfigBounds == {<<None, None>>, <<Some(0), Some(1)>>, <<Some(1), Some(0)>>}

ConfigFit ==
    \E s \in SampleArgs, splits \in ConfigSplits, b \in ConfigBounds,
       sol \in SolveArgs :
        Fit(s[1], s[2], splits, b[1], b[2], sol)

ConfigPredict == \E lb \in {None, Some(1)} : Predict(<<0, 2>>, lb, None)

ConfigFitPredict ==
    \E splits \in ConfigSplits, b \in ConfigBounds, sol \in SolveArgs :
        FitPredict(<<3, 1>>, <<5, 7>>, splits, b[1], b[2], sol)

NextConfig == ConfigFit \/ ConfigPredict \/ ConfigFitPredict

SpecConfig == InitConfig /\ [][NextConfig]_vars

----------------------------------------------------------------------------
(* The pure functions applied to enumerated arguments *)

ChooseMethod ==
    \E o \in Objectives, d \in 0..5, c \in BOOLEAN,
       m \in Trends \cup {"None"}, s \in Solvers, b \in BOOLEAN :
        /\ call' = [op |-> "_choose_method", objective |-> o, degree |-> d,
                    continuous |-> c, monotonic_trend |-> m, solver |-> s,
                    bounded |-> b,
                    result |-> _choose_method(o, d, c, m, s, b)]
        /\ UNCHANGED <<params, fitted, last_fit>>

PivotArgs == {None} \cup {Some(v) : v \in (0 - 1)..(MaxRows + 1)}

MonotonicTrendConstraints ==
    \E m \in TrendArgs, n \in 0..MaxRows, t \in PivotArgs :
        /\ call' = [op |-> "monotonic_trend_constraints", monotonic_trend |-> m,
                    rows |-> n, t |-> t,
                    result |-> monotonic_trend_constraints(m, n, t)]
        /\ UNCHANGED <<params, fitted, last_fit>>

NextPure == ChooseMethod \/ MonotonicTrendConstraints

SpecPure == InitDefault /\ [][NextPure]_vars

----------------------------------------------------------------------------
(* Properties *)

IsFitCall == call.op \in {"fit", "fit_predict"}
IsSelect == call.op = "_choose_method"
IsTrend == call.op = "monotonic_trend_constraints"
IsPredict == call.op = "predict"

\* The decision table of the method selector, row by row: the formulation
\* family, or "error".
TableFamily(o, m, s, b) ==
    IF s = "direct" /\ (o # "l2" \/ m # "None" \/ b) THEN "error"
    ELSE IF s = "direct" THEN "lsq_direct"
    ELSE IF s = "osqp" /\ o # "l2" THEN "error"
    ELSE IF s = "osqp" THEN "qp"
    ELSE IF s = "ecos" THEN "socp"
    ELSE IF s = "auto" /\ b THEN "socp"
    ELSE IF s = "auto" /\ o = "l2" /\ m = "None" THEN "lsq_direct"
    ELSE IF s = "auto" /\ o = "l2" THEN "qp"
    ELSE IF s = "auto" THEN "socp"
    ELSE "no row"

SeparatedOf(f) ==
    CASE f = "lsq_direct" -> "lsq_direct_separated"
      [] f = "qp" -> "qp_separated"
      [] f = "socp" -> "socp_separated"
      [] OTHER -> f

TableOutcome(o, c, m, s, b) ==
    IF c THEN TableFamily(o, m, s, b) ELSE SeparatedOf(TableFamily(o, m, s, b))

SelectorOutcome(res) ==
    IF res \in Methods THEN res
    ELSE IF res \in {"ValueError: direct", "ValueError: osqp"} THEN "error"
    ELSE "no value"

\* C1: for every solver, objective, degree, continuity, trend and bounded
\* flag, _choose_method yields the outcome of the decision table: a
\* configuration error or one of the six method names, the "_separated" one
\* exactly when continuous is false, and never no value.
C1_SelectorMatchesTable ==
    IsSelect =>
        /\ SelectorOutcome(call.result)
             = TableOutcome(call.objective, call.continuous,
                            call.monotonic_trend, call.solver, call.bounded)
        /\ SelectorOutcome(call.result) \in Methods \cup {"error"}
        /\ call.result \in Methods =>
             (call.result \in {"lsq_direct_separated", "qp_separated",
                               "socp_separated"} <=> ~call.continuous)

C1_Witness ==
    /\ IsSelect
    /\ call.solver = "auto" /\ call.objective = "l2" /\ call.degree = 5
    /\ call.monotonic_trend = "convex" /\ ~call.continuous /\ ~call.bounded
    /\ call.result = "qp_separated"

\* C2 as stated: with bounded = true, _choose_method never returns qp or
\* qp_separated.
C2_NeverBoundedQP ==
    (IsSelect /\ call.bounded) => call.result \notin {"qp", "qp_separated"}

\* C2 as amended: with bounded = true, _choose_method returns qp or
\* qp_separated exactly when the solver is "osqp" and the objective "l2";
\* with solver auto, ecos or direct a bounded case never goes to qp.
C2_BoundedQPOnlyOsqp ==
    (IsSelect /\ call.bounded) =>
        (call.result \in {"qp", "qp_separated"}
            <=> (call.solver = "osqp" /\ call.objective = "l2"))

C2_Witness ==
    /\ IsSelect /\ call.bounded
    /\ call.solver = "auto" /\ call.objective = "l2"
    /\ call.monotonic_trend = "ascending" /\ call.continuous
    /\ call.result = "socp"

\* The constraints of a result that relate row r of D * c to 0.
Covering(res, r) == {k \in 1..Len(res) : r \in res[k].rows}

\* Row r is constrained by exactly one inequality, and that one is rel.
ConstrainedOnce(res, r, rel) ==
    /\ Cardinality(Covering(res, r)) = 1
    /\ \A k \in Covering(res, r) : res[k].rel = rel

\* C10: every row of D * c is constrained by exactly one inequality: >= 0
\* for ascending and convex, <= 0 for descending and concave; for valley
\* (peak) and a pivot t in 0..rows, <= 0 (>= 0) on the rows below t and
\* >= 0 (<= 0) on the rows from t on.
C10_TrendSigns ==
    IsTrend =>
        /\ call.monotonic_trend \in {"ascending", "convex"} =>
             \A r \in 0..(call.rows - 1) : ConstrainedOnce(call.result, r, ">=")
        /\ call.monotonic_trend \in {"descending", "concave"} =>
             \A r \in 0..(call.rows - 1) : ConstrainedOnce(call.result, r, "<=")
        /\ (call.monotonic_trend = "valley" /\ ~IsNone(call.t)
              /\ Val(call.t) \in 0..call.rows) =>
             \A r \in 0..(call.rows - 1) :
                ConstrainedOnce(call.result, r,
                                IF r < Val(call.t) THEN "<=" ELSE ">=")
        /\ (call.monotonic_trend = "peak" /\ ~IsNone(call.t)
              /\ Val(call.t) \in 0..call.rows) =>
             \A r \in 0..(call.rows - 1) :
                ConstrainedOnce(call.result, r,
                                IF r < Val(call.t) THEN ">=" ELSE "<=")
        /\ \A k \in 1..Len(call.result) :
             call.result[k].rows \subseteq 0..(call.rows - 1)

C10_Witness ==
    /\ IsTrend
    /\ call.monotonic_trend = "valley" /\ call.rows = 3 /\ call.t = Some(1)
    /\ call.result = <<Constraint({0}, "<="), Constraint({1, 2}, ">=")>>

HasDuplicate(a) == Cardinality(SetOf(a)) # Len(a)
StrictlyIncreasing(a) == \A i \in 1..(Len(a) - 1) : a[i] < a[i + 1]
LowerAboveUpper(lb, ub) == ~IsNone(lb) /\ ~IsNone(ub) /\ Val(lb) > Val(ub)

\* C3: a fit call that raises leaves coef_, the stored split points and the
\* fitted flag as they were, so the fitted state is at all times that of the
\* last successful fit (or that of construction), and a predict that returns
\* is computed from it.
C3_FailedFitKeepsState ==
    /\ [][(call'.op \in {"fit", "fit_predict"} /\ call'.fit_err # "ok")
            => UNCHANGED <<coef_, _splits, _is_fitted>>]_vars
    /\ [](/\ last_fit.done =>
                /\ _is_fitted
                /\ coef_ = last_fit.coef
                /\ _splits = last_fit.splits
          /\ ~last_fit.done =>
                ~_is_fitted /\ coef_ = None /\ _splits = <<>>
          /\ (IsPredict /\ call.err = "ok") =>
                call.pred = predict_run(TRUE, last_fit.coef, last_fit.splits,
                                        call.x, call.lb, call.ub).pred)

C3_Witness ==
    /\ call.op = "fit" /\ call.fit_err = "SolverError"
    /\ call.builder # "none" /\ call.builder_splits # _splits
    /\ last_fit.done /\ _is_fitted

\* The errors C8 lists, as conditions on the parameters and the arguments.
ListedError ==
    \/ objective \notin Objectives
    \/ degree \notin 0..5
    \/ monotonic_trend \notin Trends \cup {"None"}
    \/ solver \notin Solvers
    \/ h_epsilon < 100
    \/ quantile \notin 1..99
    \/ monotonic_trend \in {"convex", "concave"} /\ (degree # 1 \/ ~continuous)
    \/ solver = "direct"
         /\ (~IsNone(call.lb) \/ ~IsNone(call.ub) \/ objective # "l2"
               \/ monotonic_trend # "None")
    \/ solver = "osqp" /\ objective # "l2"
    \/ HasDuplicate(call.splits)
    \/ LowerAboveUpper(call.lb, call.ub)

\* C8: a fit call with one of the listed configuration or data errors raises
\* and invokes no builder; and whenever fit raises anything but a builder's
\* own failure, no builder was invoked.
C8_ErrorsBeforeBuilder ==
    IsFitCall =>
        /\ ListedError =>
             /\ call.fit_err \notin {"ok", "SolverError"}
             /\ call.builder = "none"
        /\ call.fit_err \notin {"ok", "SolverError"} => call.builder = "none"
        /\ call.builder # "none" => call.builder \in Methods

C8_Witness ==
    /\ call.op = "fit"
    /\ solver = "direct" /\ objective = "l2" /\ monotonic_trend = "None"
    /\ ~IsNone(call.lb) /\ ~LowerAboveUpper(call.lb, call.ub)
    /\ ~HasDuplicate(call.splits)
    /\ call.fit_err = "ValueError: direct" /\ call.builder = "none"

\* C4: predict raises the not-fitted error exactly as long as no fit has
\* succeeded; the fitted flag is raised only by a fit that succeeds, and is
\* never lowered.
C4_NotFittedUntilFit ==
    /\ [](IsPredict => (call.err = "NotFittedError" <=> ~last_fit.done))
    /\ [][_is_fitted => _is_fitted']_vars
    /\ [][(~_is_fitted /\ _is_fitted')
            => (call'.op \in {"fit", "fit_predict"} /\ call'.fit_err = "ok")]_vars

C4_Witness ==
    /\ IsPredict /\ call.err = "ValueError: lb > ub"
    /\ last_fit.done /\ _is_fitted

\* C5 as stated: the split points handed to a builder and those stored by a
\* successful fit are strictly increasing, and a splits argument with a
\* duplicate makes fit raise.
C5_SplitsSortedBeforeUse ==
    /\ (IsFitCall /\ call.builder # "none") =>
          StrictlyIncreasing(call.builder_splits)
    /\ _is_fitted => StrictlyIncreasing(_splits)
    /\ (IsFitCall /\ HasDuplicate(call.splits)) => call.fit_err # "ok"

\* C6: every value predict returns lies within the bounds given to that
\* call, and predict on a fitted model with lb > ub raises and returns
\* nothing.
C6_PredictWithinBounds ==
    IsPredict =>
        /\ call.err = "ok" =>
             /\ Len(call.pred) = Len(call.x)
             /\ \A j \in 1..Len(call.pred) :
                  /\ ~IsNone(call.lb) => call.pred[j] >= Val(call.lb)
                  /\ ~IsNone(call.ub) => call.pred[j] <= Val(call.ub)
        /\ (_is_fitted /\ LowerAboveUpper(call.lb, call.ub)) =>
             call.err = "ValueError: lb > ub" /\ call.pred = <<>>

\* A prediction that the upper bound cut, on a model fitted without bounds.
C6_Witness ==
    /\ IsPredict /\ call.err = "ok" /\ ~last_fit.bounded
    /\ call.lb = Some(0) /\ call.ub = Some(1)
    /\ \E j \in 1..Len(call.pred) :
         /\ call.pred[j] = 1
         /\ predict_run(_is_fitted, coef_, _splits, call.x, None, None).pred[j] > 1

\* C7: a predict call, whether it returns or raises, leaves coef_, the
\* stored split points and the fitted flag as they were, so the same call
\* made again gives the same result.
C7_PredictChangesNothing ==
    /\ [][call'.op = "predict" => UNCHANGED <<coef_, _splits, _is_fitted>>]_vars
    /\ [](IsPredict =>
            LET again == predict_run(_is_fitted, coef_, _splits,
                                     call.x, call.lb, call.ub)
            IN  /\ again.err = call.err
                /\ again.indices = call.indices
                /\ again.pred = call.pred)

C7_Witness ==
    /\ IsPredict /\ call.err = "ok" /\ Len(call.x) > 0
    /\ _is_fitted /\ coef_ = last_fit.coef

\* v to the power k, with v^0 = 1 for every v.
RECURSIVE Power(_, _)
Power(v, k) == IF k = 0 THEN 1 ELSE v * Power(v, k - 1)

\* The sum of c[k] * v^(k-1) over the coefficients of a row.
RECURSIVE PowerSum(_, _, _)
PowerSum(c, v, k) ==
    IF k > Len(c) THEN 0 ELSE c[k] * Power(v, k - 1) + PowerSum(c, v, k + 1)

\* C9 as stated: predict on a fitted model assigns each value the index of
\* the segment that holds it by right-open binning, the number of split
\* points at or below it (0 below every split, the last index at or above
\* the largest), and returns that segment's polynomial at the value.
C9_RightOpenBinning ==
    (IsPredict /\ _is_fitted /\ ~LowerAboveUpper(call.lb, call.ub)) =>
        /\ call.err = "ok"
        /\ Len(call.indices) = Len(call.x)
        /\ \A j \in 1..Len(call.indices) :
             /\ call.indices[j] \in 0..Len(_splits)
             /\ call.indices[j]
                  = Cardinality({s \in SetOf(_splits) : s <= call.x[j]})
             /\ (IsNone(call.lb) /\ IsNone(call.ub)) =>
                  call.pred[j]
                    = PowerSum(coef_[call.indices[j] + 1], call.x[j], 1)

====
